---------------------------- MODULE Spec2Model ----------------------------
(***************************************************************************)
(* SMILES-to: the interactive loop of main.py (interactive_conversion),    *)
(* the conversion function it calls (convert_smiles) and main().           *)
(*                                                                         *)
(* Text is a sequence of one-character strings.  The cheminformatics       *)
(* toolkit, the image library, the file system and the terminal are the    *)
(* environment: each call into them is a step whose outcome (result value, *)
(* raised fault, state of the file afterwards) is chosen by the            *)
(* environment.  Writing to standard output is taken never to fail.        *)
(***************************************************************************)
EXTENDS Integers, Sequences, FiniteSets, TLC

(***************************************************************************)
(* Bounds of the model                                                     *)
(***************************************************************************)
\* iterations of the `while True` loop that are started
MaxIter == 2

(***************************************************************************)
(* Text                                                                    *)
(***************************************************************************)
Whitespace == {" ", "\t"}

DigitChars == {"0", "1", "2", "3", "4", "5", "6", "7", "8", "9"}

DigitVal(c) ==
    CASE c = "0" -> 0 [] c = "1" -> 1 [] c = "2" -> 2 [] c = "3" -> 3
      [] c = "4" -> 4 [] c = "5" -> 5 [] c = "6" -> 6 [] c = "7" -> 7
      [] c = "8" -> 8 [] c = "9" -> 9

\* str.strip(): leading and trailing whitespace removed
RECURSIVE LStrip(_)
LStrip(s) ==
    IF s # <<>> /\ Head(s) \in Whitespace THEN LStrip(Tail(s)) ELSE s

RECURSIVE RStrip(_)
RStrip(s) ==
    IF s # <<>> /\ s[Len(s)] \in Whitespace
    THEN RStrip(SubSeq(s, 1, Len(s) - 1))
    ELSE s

Strip(s) == RStrip(LStrip(s))

\* str.lower() on the letters the answers use
LowerChar(c) ==
    CASE c = "Y" -> "y" [] c = "E" -> "e" [] c = "S" -> "s" [] c = "N" -> "n"
      [] OTHER -> c

Lower(s) == [i \in 1..Len(s) |-> LowerChar(s[i])]

\* str.endswith(suffix)
EndsWith(s, suffix) ==
    /\ Len(s) >= Len(suffix)
    /\ SubSeq(s, Len(s) - Len(suffix) + 1, Len(s)) = suffix

\* an answer as typed: bare, or with whitespace before and after it
Padded(S) == S \cup {<<" ">> \o s \o <<"\t", " ">> : s \in S}

(***************************************************************************)
(* int(text) of Python for base 10: surrounding whitespace, one optional   *)
(* sign, then digits that may be grouped by single underscores.            *)
(***************************************************************************)
IsDecimal(d) ==
    /\ d # <<>>
    /\ d[1] \in DigitChars
    /\ d[Len(d)] \in DigitChars
    /\ \A i \in 1..Len(d) : d[i] \in DigitChars \cup {"_"}
    /\ \A i \in 1..(Len(d) - 1) : ~(d[i] = "_" /\ d[i + 1] = "_")

RECURSIVE DecimalValue(_)
DecimalValue(d) ==
    IF d = <<>> THEN 0
    ELSE LET c == d[Len(d)]
             front == SubSeq(d, 1, Len(d) - 1)
         IN  IF c = "_" THEN DecimalValue(front)
             ELSE 10 * DecimalValue(front) + DigitVal(c)

\* [ok |-> TRUE, val |-> n], or [ok |-> FALSE, ...] where int() raises ValueError
ParseInt(text) ==
    LET t == Strip(text)
        signed == t # <<>> /\ t[1] \in {"+", "-"}
        body == IF signed THEN Tail(t) ELSE t
    IN  IF IsDecimal(body)
        THEN [ok |-> TRUE,
              val |-> IF signed /\ t[1] = "-" THEN 0 - DecimalValue(body)
                      ELSE DecimalValue(body)]
        ELSE [ok |-> FALSE, val |-> 0]


(***************************************************************************)
(* Faults and the try statements that catch them                           *)
(***************************************************************************)
\* KeyboardInterrupt derives from BaseException, the others from Exception
ExceptionSubclasses == {"EOFError", "ValueError", "RuntimeError", "OSError"}

Faults == ExceptionSubclasses \cup {"KeyboardInterrupt"}

\* TryBlocks with convert_smiles catching `except ValueError` at its boundary
\* in place of `except Exception`
TryBlocksNarrowBoundary ==
    { [fn |-> "convert_smiles", first |-> 20, last |-> 76,
       catches |-> {"ValueError"}, handler |-> "cs_except"],
      [fn |-> "convert_smiles", first |-> 46, last |-> 55,
       catches |-> ExceptionSubclasses, handler |-> "cs_3d_except"],
      [fn |-> "interactive_conversion", first |-> 102, last |-> 177,
       catches |-> {"KeyboardInterrupt"}, handler |-> "loop_interrupt"],
      [fn |-> "interactive_conversion", first |-> 102, last |-> 177,
       catches |-> ExceptionSubclasses, handler |-> "loop_except"],
      [fn |-> "interactive_conversion", first |-> 134, last |-> 137,
       catches |-> {"ValueError"}, handler |-> "size_except"],
      [fn |-> "main", first |-> 189, last |-> 189,
       catches |-> ExceptionSubclasses, handler |-> "main_except"] }

\* the loop without its `except KeyboardInterrupt` clause (lines 179-181)
TryBlocksWithoutInterruptClause ==
    { [fn |-> "convert_smiles", first |-> 20, last |-> 76,
       catches |-> ExceptionSubclasses, handler |-> "cs_except"],
      [fn |-> "convert_smiles", first |-> 46, last |-> 55,
       catches |-> ExceptionSubclasses, handler |-> "cs_3d_except"],
      [fn |-> "interactive_conversion", first |-> 102, last |-> 177,
       catches |-> ExceptionSubclasses, handler |-> "loop_except"],
      [fn |-> "interactive_conversion", first |-> 134, last |-> 137,
       catches |-> {"ValueError"}, handler |-> "size_except"],
      [fn |-> "main", first |-> 189, last |-> 189,
       catches |-> ExceptionSubclasses, handler |-> "main_except"] }

\* convert_smiles without the try statement around the 3D generation
\* (lines 45 and 56-59)
TryBlocksWithout3dClause ==
    { [fn |-> "convert_smiles", first |-> 20, last |-> 76,
       catches |-> ExceptionSubclasses, handler |-> "cs_except"],
      [fn |-> "interactive_conversion", first |-> 102, last |-> 177,
       catches |-> {"KeyboardInterrupt"}, handler |-> "loop_interrupt"],
      [fn |-> "interactive_conversion", first |-> 102, last |-> 177,
       catches |-> ExceptionSubclasses, handler |-> "loop_except"],
      [fn |-> "interactive_conversion", first |-> 134, last |-> 137,
       catches |-> {"ValueError"}, handler |-> "size_except"],
      [fn |-> "main", first |-> 189, last |-> 189,
       catches |-> ExceptionSubclasses, handler |-> "main_except"] }

\* the loop without its `except Exception` clause (lines 182-184)
TryBlocksWithoutLoopExcept ==
    { [fn |-> "convert_smiles", first |-> 20, last |-> 76,
       catches |-> ExceptionSubclasses, handler |-> "cs_except"],
      [fn |-> "convert_smiles", first |-> 46, last |-> 55,
       catches |-> ExceptionSubclasses, handler |-> "cs_3d_except"],
      [fn |-> "interactive_conversion", first |-> 102, last |-> 177,
       catches |-> {"KeyboardInterrupt"}, handler |-> "loop_interrupt"],
      [fn |-> "interactive_conversion", first |-> 134, last |-> 137,
       catches |-> {"ValueError"}, handler |-> "size_except"],
      [fn |-> "main", first |-> 189, last |-> 189,
       catches |-> ExceptionSubclasses, handler |-> "main_except"] }

\* the body (first..last) of each try statement, what each except clause
\* catches and the name of the clause
TryBlocks ==
    { [fn |-> "convert_smiles", first |-> 20, last |-> 76,
       catches |-> ExceptionSubclasses, handler |-> "cs_except"],
      [fn |-> "convert_smiles", first |-> 46, last |-> 55,
       catches |-> ExceptionSubclasses, handler |-> "cs_3d_except"],
      [fn |-> "interactive_conversion", first |-> 102, last |-> 177,
       catches |-> {"KeyboardInterrupt"}, handler |-> "loop_interrupt"],
      [fn |-> "interactive_conversion", first |-> 102, last |-> 177,
       catches |-> ExceptionSubclasses, handler |-> "loop_except"],
      [fn |-> "interactive_conversion", first |-> 134, last |-> 137,
       catches |-> {"ValueError"}, handler |-> "size_except"],
      [fn |-> "main", first |-> 189, last |-> 189,
       catches |-> ExceptionSubclasses, handler |-> "main_except"] }

\* the except clause that receives a fault raised at the top of a call stack
\* (a sequence of [fn, line], callee last): the innermost enclosing try of
\* the nearest frame that has one, "uncaught" when no frame has
RECURSIVE Catcher(_, _)
Catcher(stack, fault) ==
    IF stack = <<>> THEN "uncaught"
    ELSE LET frame == stack[Len(stack)]
             around == {b \in TryBlocks :
                          /\ b.fn = frame.fn
                          /\ b.first <= frame.line
                          /\ frame.line <= b.last
                          /\ fault \in b.catches}
         IN  IF around # {}
             THEN (CHOOSE b \in around : \A o \in around : o.first <= b.first).handler
             ELSE Catcher(SubSeq(stack, 1, Len(stack) - 1), fault)

(***************************************************************************)
(* Program points                                                          *)
(***************************************************************************)
LoopPoints ==
    {"loop_top", "read_choice", "read_smiles", "read_size", "read_name",
     "call", "banner", "read_continue"}

ConvertPoints ==
    {"cs_parse", "cs_png_layout", "cs_png_render", "cs_png_save", "cs_addhs",
     "cs_embed", "cs_embed_alt", "cs_minimize", "cs_3d_fallback",
     "cs_layout_2d", "cs_write", "cs_check"}

\* the source line a program point stands at
LineOf(p) ==
    CASE p = "loop_top" -> 91
      [] p = "read_choice" -> 102
      [] p = "read_smiles" -> 113
      [] p = "read_size" -> 129
      [] p = "read_name" -> 154
      [] p = "call" -> 164
      [] p = "banner" -> 166
      [] p = "read_continue" -> 174
      [] p = "cs_parse" -> 21
      [] p = "cs_png_layout" -> 33
      [] p = "cs_png_render" -> 36
      [] p = "cs_png_save" -> 37
      [] p = "cs_addhs" -> 40
      [] p = "cs_embed" -> 46
      [] p = "cs_embed_alt" -> 49
      [] p = "cs_minimize" -> 51
      [] p = "cs_3d_fallback" -> 59
      [] p = "cs_layout_2d" -> 61
      [] p = "cs_write" -> 66
      [] p = "cs_check" -> 71

\* main() calls interactive_conversion() at line 189, which calls
\* convert_smiles() at line 164
StackAt(p) ==
    IF p \in ConvertPoints
    THEN << [fn |-> "main", line |-> 189],
            [fn |-> "interactive_conversion", line |-> 164],
            [fn |-> "convert_smiles", line |-> LineOf(p)] >>
    ELSE << [fn |-> "main", line |-> 189],
            [fn |-> "interactive_conversion", line |-> LineOf(p)] >>

(***************************************************************************)
(* What the user may type                                                  *)
(***************************************************************************)
T_pdb == <<"p", "d", "b">>
T_mol == <<"m", "o", "l">>
T_png == <<"p", "n", "g">>
Formats == {T_pdb, T_mol, T_png}

Ext(fmt) == <<".">> \o fmt

ChoiceInputs ==
    Padded({<<c>> : c \in {"1", "2", "3", "4", "5", "6", "7"}} \cup {<<>>})

ValidSmiles == {<<"C">>}

SmilesInputs == Padded({<<>>, <<"C">>, <<"#">>})

SizeInputs ==
    Padded({<<>>, <<"0">>, <<"2">>, <<"0", "2">>, <<"2", "0">>, <<"+", "2">>,
            <<"-", "2">>, <<"-", "0">>, <<"2", "_", "0">>, <<"_", "2">>,
            <<"2", "_">>, <<"2", "_", "_", "0">>, <<"2", " ", "0">>,
            <<"x">>, <<"2", "x">>, <<"2", ".", "0">>, <<"+">>})

NameInputs ==
    Padded({<<>>, <<"a">> \o Ext(T_pdb)})

ContinueInputs ==
    {<<>>, <<"y">>, <<" ", "Y", "e", "S", "\t", " ">>, <<"n">>, <<"y", "e">>}

(***************************************************************************)
(* The decisions of interactive_conversion                                 *)
(***************************************************************************)
\* the branch of lines 147-151 writing 'pdb' as well
FormatOfNeverMol(c) ==
    IF c = <<"5">> THEN T_png ELSE T_pdb

\* lines 119-122, 142-151: format, 3D flag and extension for a menu choice
FormatOf(c) ==
    IF c = <<"5">> THEN T_png
    ELSE IF c \in {<<"1">>, <<"2">>} THEN T_pdb
    ELSE T_mol

Generate3dOf(c) ==
    IF c = <<"5">> THEN FALSE
    ELSE IF c \in {<<"1">>, <<"2">>} THEN c = <<"1">>
    ELSE c = <<"3">>

DefaultExtOf(c) == Ext(FormatOf(c))

\* line 131: the size used when none is given
DefaultImageSize == 200

\* line 135 testing `image_size < 0`
ImageSizeOfAllowingZero(value) ==
    IF value < 0 THEN DefaultImageSize ELSE value

\* lines 134-137: the image size for the integer the answer parsed to
ImageSizeOf(value) ==
    IF value <= 0 THEN DefaultImageSize ELSE value

\* lines 154-158 without the endswith test of line 157
OutputNameAlwaysAppending(name_input, default_ext) ==
    LET output_name == Strip(name_input)
    IN  IF output_name = <<>> THEN <<"o", "u", "t", "p", "u", "t">> \o default_ext
        ELSE output_name \o default_ext

\* lines 154-158: the output file name for the answer to the name prompt
OutputNameOf(name_input, default_ext) ==
    LET output_name == Strip(name_input)
    IN  IF output_name = <<>> THEN <<"o", "u", "t", "p", "u", "t">> \o default_ext
        ELSE IF ~EndsWith(output_name, default_ext) THEN output_name \o default_ext
        ELSE output_name

\* lines 174-175 going on unless the answer is a refusal
ContinuesUnlessNo(answer) ==
    Lower(Strip(answer)) \notin {<<"n">>, <<"n", "o">>}

\* lines 174-175: whether the answer to the continue prompt goes on
Continues(answer) ==
    Lower(Strip(answer)) \in {<<"y">>, <<"y", "e", "s">>}


(***************************************************************************)
(* The external toolkit and the file system                                *)
(***************************************************************************)
\* Chem.MolFromSmiles: a molecule, or None for a text that is not SMILES
MolFromSmiles(smiles_string) ==
    IF smiles_string \in ValidSmiles THEN "parsed" ELSE "None"

\* AllChem.EmbedMolecule: 0 when a conformer was stored, -1 when none was
EmbedResults == {0, -1}

\* AllChem.MMFFOptimizeMolecule: 0 converged, 1 more iterations needed,
\* -1 the force field could not be set up; without a conformer to optimise
\* it cannot report convergence
MinimizeResults(coordinates) ==
    IF coordinates = "none" THEN {-1} ELSE {0, 1, -1}

FileStates == {"absent", "empty", "nonempty"}

\* the file a writer leaves behind: complete, empty or missing when it
\* returns; untouched, truncated or partial when it raises
FileAfterWrite(before, raised) ==
    IF raised THEN {before, "empty", "nonempty"}
    ELSE {"nonempty", "empty"} \cup (IF before = "absent" THEN {"absent"} ELSE {})

\* every path the loop can pass to convert_smiles
Paths ==
    {OutputNameOf(n, Ext(f)) : n \in NameInputs, f \in Formats}

(***************************************************************************)
(* State                                                                   *)
(***************************************************************************)
VARIABLES
    pc,             \* program point
    iter,           \* iterations of the loop started so far
    exitCode,       \* "running", or how the process ended
    choice,         \* locals of interactive_conversion (they live across
    smiles,         \*   iterations; Unbound until first assigned,
    output_format,  \*   0 for image_size)
    default_ext,
    generate_3d,
    image_size,
    output_name,
    success,
    args,           \* parameters of the calls of convert_smiles made in this
                    \*   iteration (at most one)
    mol,            \* convert_smiles: mol
    mol_with_h,     \* convert_smiles: mol_with_h
    ret,            \* convert_smiles: returned value, "none" until it returns
    fs,             \* the file system: state of the file at each path
    out,            \* what this iteration printed, prompts included
    answer,         \* the answer just read from the terminal, if the last
                    \*   step read one
    ops,            \* toolkit operations this iteration performed
    writes,         \* file-writing operations this iteration performed
    before          \* fs as it was when this iteration began

loopVars ==
    <<choice, smiles, output_format, default_ext, generate_3d, image_size,
      output_name, success>>

convertVars == <<args, mol, mol_with_h, ret>>

vars ==
    <<pc, iter, exitCode, choice, smiles, output_format, default_ext,
      generate_3d, image_size, output_name, success, args, mol, mol_with_h,
      ret, fs, out, answer, ops, writes, before>>

NoAnswer == [to |-> "none", text |-> <<>>]

Answered(prompt, typed) == [to |-> prompt, text |-> typed]

Unbound == <<"unbound">>

PyBool(b) == IF b THEN "True" ELSE "False"

Init ==
    /\ pc = "loop_top"
    /\ iter = 0
    /\ exitCode = "running"
    /\ choice = Unbound
    /\ smiles = Unbound
    /\ output_format = Unbound
    /\ default_ext = Unbound
    /\ generate_3d = "unbound"
    /\ image_size = 0
    /\ output_name = Unbound
    /\ success = "unbound"
    /\ args = <<>>
    /\ mol = "unbound"
    /\ mol_with_h = "unbound"
    /\ ret = "none"
    /\ fs = [p \in Paths |-> "absent"]
    /\ out = <<>>
    /\ answer = NoAnswer
    /\ ops = <<>>
    /\ writes = <<>>
    /\ before = fs


(***************************************************************************)
(* Raising and catching                                                    *)
(***************************************************************************)
\* control moves to except clause h after `printed` has been printed: what
\* the clause prints and where it leaves the program (pc, out, ret, exitCode)
Handle(h, printed) ==
    CASE h = "cs_3d_except" ->       \* lines 56-58, then line 59
           /\ out' = printed \o <<"3D coordinate generation warning",
                                  "Using 2D coordinates...">>
           /\ pc' = "cs_3d_fallback"
           /\ UNCHANGED <<ret, exitCode>>
      [] h = "cs_except" ->          \* lines 78-80
           /\ out' = Append(printed, "Conversion failed")
           /\ ret' = "False"
           /\ pc' = "banner"
           /\ UNCHANGED exitCode
      [] h = "loop_interrupt" ->     \* lines 179-181, then main returns
           /\ out' = Append(printed, "Program interrupted. Goodbye!")
           /\ pc' = "done"
           /\ exitCode' = "0"
           /\ ret' = "none"
      [] h = "loop_except" ->        \* lines 182-184
           /\ out' = Append(printed, "An error occurred")
           /\ pc' = "loop_top"
           /\ UNCHANGED <<ret, exitCode>>
      [] h = "main_except" ->        \* lines 190-192
           /\ out' = Append(printed, "Unexpected error")
           /\ pc' = "done"
           /\ exitCode' = "1"
           /\ ret' = "none"
      [] OTHER ->                    \* no clause: the interpreter ends the process
           /\ out' = Append(printed, "Traceback")
           /\ pc' = "done"
           /\ exitCode' = "uncaught"
           /\ ret' = "none"

\* a fault raised at the current program point
Throw(fault, printed) == Handle(Catcher(StackAt(pc), fault), printed)

Running == exitCode = "running" /\ pc # "done"

\* when the process ends its frames are gone: a variable keeps the value a
\* step gives it unless the step ends the process
Keep(value, gone) == IF pc' = "done" THEN gone ELSE value

\* the locals of interactive_conversion are left as they are; the choice of
\* the last iteration stays on record when the process ends
LoopFrameKept ==
    /\ UNCHANGED choice
    /\ smiles' = Keep(smiles, Unbound)
    /\ output_format' = Keep(output_format, Unbound)
    /\ default_ext' = Keep(default_ext, Unbound)
    /\ generate_3d' = Keep(generate_3d, "unbound")
    /\ image_size' = Keep(image_size, 0)
    /\ output_name' = Keep(output_name, Unbound)
    /\ success' = Keep(success, "unbound")

\* the parameters and locals of convert_smiles are left as they are
\* (ret is set where the fault is handled)
ConvertFrameKept ==
    /\ args' = Keep(args, <<>>)
    /\ mol' = Keep(mol, "unbound")
    /\ mol_with_h' = Keep(mol_with_h, "unbound")

\* what the iteration did so far is left as it is
TraceKept ==
    /\ ops' = Keep(ops, <<>>)
    /\ writes' = Keep(writes, <<>>)
    /\ before' = Keep(before, fs)

ReadPoints ==
    {"read_choice", "read_smiles", "read_size", "read_name", "read_continue"}

\* the prompt input() shows at a program point
PromptOf(p) ==
    CASE p = "read_choice" -> "prompt: option"
      [] p = "read_smiles" -> "prompt: SMILES"
      [] p = "read_size" -> "prompt: size"
      [] p = "read_name" -> "prompt: filename"
      [] p = "read_continue" -> "prompt: another"

ToolkitPoints ==
    {"cs_parse", "cs_png_layout", "cs_png_render", "cs_addhs", "cs_embed",
     "cs_embed_alt", "cs_minimize", "cs_3d_fallback", "cs_layout_2d"}

\* the toolkit call made at a program point
ToolkitOp(p) ==
    CASE p = "cs_parse" -> "MolFromSmiles"
      [] p = "cs_png_layout" -> "Compute2DCoords"
      [] p = "cs_png_render" -> "MolToImage"
      [] p = "cs_addhs" -> "AddHs"
      [] p = "cs_embed" -> "EmbedMolecule(ETKDG)"
      [] p = "cs_embed_alt" -> "EmbedMolecule"
      [] p = "cs_minimize" -> "MMFFOptimizeMolecule"
      [] p = "cs_3d_fallback" -> "Compute2DCoords"
      [] p = "cs_layout_2d" -> "Compute2DCoords"

\* a toolkit call that returned nothing the code looks at, or raised
Did(op, raised) == [op |-> op, raised |-> raised, result |-> 0]

\* a toolkit call that returned the status `result`
Gave(op, result) == [op |-> op, raised |-> FALSE, result |-> result]

\* Ctrl-C while the program runs; at an input() it comes before or after
\* the prompt is shown
Interrupt ==
    /\ Running
    /\ \/ Throw("KeyboardInterrupt", out)
       \/ /\ pc \in ReadPoints
          /\ Throw("KeyboardInterrupt", Append(out, PromptOf(pc)))
    /\ answer' = NoAnswer
    /\ LoopFrameKept
    /\ ConvertFrameKept
    /\ TraceKept
    /\ UNCHANGED <<iter, fs>>

\* input() raising, for instance at end of input
InputFault ==
    /\ Running
    /\ pc \in ReadPoints
    /\ Throw("EOFError", Append(out, PromptOf(pc)))
    /\ answer' = NoAnswer
    /\ LoopFrameKept
    /\ ConvertFrameKept
    /\ TraceKept
    /\ UNCHANGED <<iter, fs>>

\* a toolkit call raising
ToolkitFault ==
    /\ Running
    /\ pc \in ToolkitPoints
    /\ Throw("RuntimeError", out)
    /\ ops' = Keep(Append(ops, Did(ToolkitOp(pc), TRUE)), <<>>)
    /\ answer' = NoAnswer
    /\ LoopFrameKept
    /\ ConvertFrameKept
    /\ writes' = Keep(writes, <<>>)
    /\ before' = Keep(before, fs)
    /\ UNCHANGED <<iter, fs>>

(***************************************************************************)
(* interactive_conversion                                                  *)
(***************************************************************************)
\* line 107
IsConversionChoice(c) == c \in {<<"1">>, <<"2">>, <<"3">>, <<"4">>, <<"5">>}

\* line 114 left out
IsEmptyTextNever(t) == FALSE

\* line 114: `not smiles`
IsEmptyText(t) == t = <<>>

\* lines 90-99: a new iteration prints the menu
LoopTop ==
    /\ Running
    /\ answer' = NoAnswer
    /\ pc = "loop_top"
    /\ iter < MaxIter
    /\ iter' = iter + 1
    /\ out' = <<"Options">>
    /\ ops' = <<>>
    /\ writes' = <<>>
    /\ args' = <<>>
    /\ mol' = "unbound"
    /\ mol_with_h' = "unbound"
    /\ ret' = "none"
    /\ before' = fs
    /\ pc' = "read_choice"
    /\ UNCHANGED <<exitCode, loopVars, fs>>

\* lines 102-109
ReadChoice ==
    /\ Running
    /\ pc = "read_choice"
    /\ \E typed \in ChoiceInputs :
         /\ answer' = Answered("option", typed)
         /\ IF Strip(typed) = <<"6">>
            THEN /\ out' = out \o <<"prompt: option", "Goodbye!">>
                 /\ pc' = "done"
                 /\ exitCode' = "0"
            ELSE IF ~IsConversionChoice(Strip(typed))
            THEN /\ out' = out \o <<"prompt: option", "Invalid choice">>
                 /\ pc' = "loop_top"
                 /\ UNCHANGED exitCode
            ELSE /\ out' = Append(out, "prompt: option")
                 /\ pc' = "read_smiles"
                 /\ UNCHANGED exitCode
         /\ choice' = Strip(typed)
    /\ smiles' = Keep(smiles, Unbound)
    /\ output_format' = Keep(output_format, Unbound)
    /\ default_ext' = Keep(default_ext, Unbound)
    /\ generate_3d' = Keep(generate_3d, "unbound")
    /\ image_size' = Keep(image_size, 0)
    /\ output_name' = Keep(output_name, Unbound)
    /\ success' = Keep(success, "unbound")
    /\ ConvertFrameKept
    /\ TraceKept
    /\ UNCHANGED <<iter, ret, fs>>

\* lines 112-151 without the assignments of image_size at lines 147 and 151
ReadSmilesKeepingSize ==
    /\ Running
    /\ pc = "read_smiles"
    /\ \E typed \in SmilesInputs :
         /\ smiles' = Strip(typed)
         /\ answer' = Answered("SMILES", typed)
         /\ IF IsEmptyText(smiles')
            THEN /\ out' = out \o <<"prompt: SMILES", "Please enter a valid SMILES string">>
                 /\ pc' = "loop_top"
                 /\ UNCHANGED <<output_format, default_ext, generate_3d>>
            ELSE /\ out' = Append(out, "prompt: SMILES")
                 /\ output_format' = FormatOf(choice)
                 /\ default_ext' = DefaultExtOf(choice)
                 /\ generate_3d' = PyBool(Generate3dOf(choice))
                 /\ pc' = IF choice = <<"5">> THEN "read_size" ELSE "read_name"
    /\ UNCHANGED <<iter, exitCode, choice, image_size, output_name, success,
                   convertVars, fs, ops, writes, before>>

\* lines 112-116, and lines 119-122 or 142-151
ReadSmiles ==
    /\ Running
    /\ pc = "read_smiles"
    /\ \E typed \in SmilesInputs :
         /\ smiles' = Strip(typed)
         /\ answer' = Answered("SMILES", typed)
         /\ IF IsEmptyText(smiles')
            THEN /\ out' = out \o <<"prompt: SMILES", "Please enter a valid SMILES string">>
                 /\ pc' = "loop_top"
                 /\ UNCHANGED <<output_format, default_ext, generate_3d, image_size>>
            ELSE /\ out' = Append(out, "prompt: SMILES")
                 /\ output_format' = FormatOf(choice)
                 /\ default_ext' = DefaultExtOf(choice)
                 /\ generate_3d' = PyBool(Generate3dOf(choice))
                 /\ IF choice = <<"5">>
                    THEN pc' = "read_size" /\ UNCHANGED image_size
                    ELSE pc' = "read_name" /\ image_size' = DefaultImageSize
    /\ UNCHANGED <<iter, exitCode, choice, output_name, success, convertVars,
                   fs, ops, writes, before>>

\* the stack when int(size_input) raises at line 134
IntCallStack ==
    << [fn |-> "main", line |-> 189],
       [fn |-> "interactive_conversion", line |-> 134] >>

\* lines 125-140
ReadSize ==
    /\ Running
    /\ pc = "read_size"
    /\ \E typed \in SizeInputs :
         LET size_input == Strip(typed)
             parsed == ParseInt(size_input)
             clause == Catcher(IntCallStack, "ValueError")
         IN  /\ answer' = Answered("size", typed)
             /\ IF size_input = <<>>
                THEN /\ image_size' = DefaultImageSize
                     /\ out' = Append(out, "prompt: size")
                     /\ pc' = "read_name"
                     /\ UNCHANGED <<ret, exitCode>>
                ELSE IF parsed.ok
                THEN /\ image_size' = ImageSizeOf(parsed.val)
                     /\ out' = out \o <<"prompt: size">>
                                 \o (IF image_size' # parsed.val
                                     THEN <<"Invalid size">> ELSE <<>>)
                     /\ pc' = "read_name"
                     /\ UNCHANGED <<ret, exitCode>>
                ELSE IF clause = "size_except"
                THEN /\ image_size' = DefaultImageSize
                     /\ out' = out \o <<"prompt: size", "Invalid size">>
                     /\ pc' = "read_name"
                     /\ UNCHANGED <<ret, exitCode>>
                ELSE /\ Handle(clause, Append(out, "prompt: size"))
                     /\ image_size' = Keep(image_size, 0)
    /\ UNCHANGED choice
    /\ smiles' = Keep(smiles, Unbound)
    /\ output_format' = Keep(output_format, Unbound)
    /\ default_ext' = Keep(default_ext, Unbound)
    /\ generate_3d' = Keep(generate_3d, "unbound")
    /\ output_name' = Keep(output_name, Unbound)
    /\ success' = Keep(success, "unbound")
    /\ ConvertFrameKept
    /\ TraceKept
    /\ UNCHANGED <<iter, fs>>

\* lines 154-158
ReadName ==
    /\ Running
    /\ pc = "read_name"
    /\ \E typed \in NameInputs :
         /\ output_name' = OutputNameOf(typed, default_ext)
         /\ answer' = Answered("filename", typed)
    /\ out' = Append(out, "prompt: filename")
    /\ pc' = "call"
    /\ UNCHANGED <<iter, exitCode, choice, smiles, output_format, default_ext,
                   generate_3d, image_size, success, convertVars, fs, ops,
                   writes, before>>


\* lines 160-164 and line 17: the call of convert_smiles
Call ==
    /\ Running
    /\ answer' = NoAnswer
    /\ pc = "call"
    /\ args' = << [smiles_string |-> smiles,
                   output_file |-> output_name,
                   output_format |-> output_format,
                   generate_3d |-> generate_3d,
                   image_size |-> image_size] >>
    /\ out' = out \o <<"Converting SMILES to ...", "Converting SMILES to">>
    /\ pc' = "cs_parse"
    /\ UNCHANGED <<iter, exitCode, loopVars, mol, mol_with_h, ret, fs, ops,
                   writes, before>>

(***************************************************************************)
(* convert_smiles                                                          *)
(***************************************************************************)
Arg == args[Len(args)]

\* line 22 testing a value that is never None
IsNoneNever(m) == FALSE

\* line 22: `mol is None`
IsNone(m) == m = "None"

\* line 71 without the size test: os.path.exists(output_file) alone
OutputExists(file) == file # "absent"

\* line 71 left out: success reported once the writer has returned
OutputAssumed(file) == TRUE

\* line 71: the post-condition on the output file
OutputCreated(file) == file = "nonempty"

\* lines 64-69: the writer for a format of the else branch
WriterOf(fmt) ==
    IF fmt = T_pdb THEN "MolToPDBFile"
    ELSE IF fmt = T_mol THEN "MolToMolFile"
    ELSE "none"

\* the writers given a fixed default path
WriteTargetDefault(output_file) ==
    <<"o", "u", "t", "p", "u", "t">> \o Ext(T_pdb)

\* lines 37, 66, 69: the path a writer is given
WriteTarget(output_file) == output_file

Wrote(op, path, handed, raised) ==
    [op |-> op, path |-> path, handed |-> handed, raised |-> raised]

\* lines 20-30 taking the png branch only when generate_3d is false
ParseHeeding3DForPng ==
    /\ Running
    /\ answer' = NoAnswer
    /\ pc = "cs_parse"
    /\ mol' = MolFromSmiles(Arg.smiles_string)
    /\ ops' = Append(ops, Did("MolFromSmiles", FALSE))
    /\ IF IsNone(mol')
       THEN /\ out' = out \o <<"Parsing SMILES", "Invalid SMILES string">>
            /\ ret' = "False"
            /\ pc' = "banner"
       ELSE /\ out' = out \o <<"Parsing SMILES", "Successfully parsed SMILES",
                               "Molecular formula", "Number of atoms">>
            /\ pc' = IF Arg.output_format = T_png /\ Arg.generate_3d # "True"
                     THEN "cs_png_layout" ELSE "cs_addhs"
            /\ UNCHANGED ret
    /\ UNCHANGED <<iter, exitCode, loopVars, args, mol_with_h, fs, writes, before>>

\* lines 20-28
Parse ==
    /\ Running
    /\ answer' = NoAnswer
    /\ pc = "cs_parse"
    /\ mol' = MolFromSmiles(Arg.smiles_string)
    /\ ops' = Append(ops, Did("MolFromSmiles", FALSE))
    /\ IF IsNone(mol')
       THEN /\ out' = out \o <<"Parsing SMILES", "Invalid SMILES string">>
            /\ ret' = "False"
            /\ pc' = "banner"
       ELSE /\ out' = out \o <<"Parsing SMILES", "Successfully parsed SMILES",
                               "Molecular formula", "Number of atoms">>
            /\ pc' = IF Arg.output_format = T_png THEN "cs_png_layout" ELSE "cs_addhs"
            /\ UNCHANGED ret
    /\ UNCHANGED <<iter, exitCode, loopVars, args, mol_with_h, fs, writes, before>>

\* lines 32-33
PngLayout ==
    /\ Running
    /\ answer' = NoAnswer
    /\ pc = "cs_png_layout"
    /\ out' = Append(out, "Generating 2D molecular image...")
    /\ mol' = "2d"
    /\ ops' = Append(ops, Did("Compute2DCoords", FALSE))
    /\ pc' = "cs_png_render"
    /\ UNCHANGED <<iter, exitCode, loopVars, args, mol_with_h, ret, fs, writes, before>>

\* lines 35-36
PngRender ==
    /\ Running
    /\ answer' = NoAnswer
    /\ pc = "cs_png_render"
    /\ out' = Append(out, "Saving as PNG image")
    /\ ops' = Append(ops, Did("MolToImage", FALSE))
    /\ pc' = "cs_png_save"
    /\ UNCHANGED <<iter, exitCode, loopVars, args, mol, mol_with_h, ret, fs, writes, before>>

\* line 37
PngSave ==
    /\ Running
    /\ answer' = NoAnswer
    /\ pc = "cs_png_save"
    /\ LET path == WriteTarget(Arg.output_file)
       IN  \E raised \in BOOLEAN : \E after \in FileAfterWrite(fs[path], raised) :
             /\ fs' = [fs EXCEPT ![path] = after]
             /\ IF raised
                THEN Throw("OSError", out)
                ELSE pc' = "cs_check" /\ UNCHANGED <<out, ret, exitCode>>
             /\ writes' = Keep(Append(writes, Wrote("img.save", path, mol, raised)), <<>>)
    /\ LoopFrameKept
    /\ ConvertFrameKept
    /\ ops' = Keep(ops, <<>>)
    /\ before' = Keep(before, fs')
    /\ UNCHANGED iter

\* lines 40-44
AddHs ==
    /\ Running
    /\ answer' = NoAnswer
    /\ pc = "cs_addhs"
    /\ mol_with_h' = "none"
    /\ ops' = Append(ops, Did("AddHs", FALSE))
    /\ IF Arg.generate_3d = "True"
       THEN /\ out' = out \o <<"Number of atoms after adding hydrogens",
                               "Generating 3D coordinates...">>
            /\ pc' = "cs_embed"
       ELSE /\ out' = Append(out, "Number of atoms after adding hydrogens")
            /\ pc' = "cs_layout_2d"
    /\ UNCHANGED <<iter, exitCode, loopVars, args, mol, ret, fs, writes, before>>

\* lines 46-48 without the fallback of line 49
EmbedWithoutFallback ==
    /\ Running
    /\ answer' = NoAnswer
    /\ pc = "cs_embed"
    /\ \E embed_result \in EmbedResults :
         /\ mol_with_h' = IF embed_result = 0 THEN "3d" ELSE mol_with_h
         /\ out' = IF embed_result = -1
                   THEN Append(out, "First embedding failed, trying alternative method...")
                   ELSE out
         /\ ops' = Append(ops, Gave("EmbedMolecule(ETKDG)", embed_result))
    /\ pc' = "cs_minimize"
    /\ UNCHANGED <<iter, exitCode, loopVars, args, mol, ret, fs, writes, before>>

\* lines 46-48
Embed ==
    /\ Running
    /\ answer' = NoAnswer
    /\ pc = "cs_embed"
    /\ \E embed_result \in EmbedResults :
         /\ mol_with_h' = IF embed_result = 0 THEN "3d" ELSE mol_with_h
         /\ IF embed_result = -1
            THEN /\ out' = Append(out, "First embedding failed, trying alternative method...")
                 /\ pc' = "cs_embed_alt"
            ELSE /\ pc' = "cs_minimize"
                 /\ UNCHANGED out
         /\ ops' = Append(ops, Gave("EmbedMolecule(ETKDG)", embed_result))
    /\ UNCHANGED <<iter, exitCode, loopVars, args, mol, ret, fs, writes, before>>

\* line 49: the result is not looked at
EmbedAlt ==
    /\ Running
    /\ answer' = NoAnswer
    /\ pc = "cs_embed_alt"
    /\ \E embed_result \in EmbedResults :
         /\ mol_with_h' = IF embed_result = 0 THEN "3d" ELSE mol_with_h
         /\ ops' = Append(ops, Gave("EmbedMolecule", embed_result))
    /\ pc' = "cs_minimize"
    /\ UNCHANGED <<iter, exitCode, loopVars, args, mol, ret, fs, out, writes, before>>

\* lines 51-55
Minimize ==
    /\ Running
    /\ answer' = NoAnswer
    /\ pc = "cs_minimize"
    /\ \E minimize_result \in MinimizeResults(mol_with_h) :
         /\ out' = out \o (IF minimize_result # 0
                           THEN <<"Energy minimization may not have fully converged">>
                           ELSE <<>>)
                       \o <<"3D coordinates generated successfully">>
         /\ ops' = Append(ops, Gave("MMFFOptimizeMolecule", minimize_result))
    /\ pc' = "cs_write"
    /\ UNCHANGED <<iter, exitCode, loopVars, args, mol, mol_with_h, ret, fs, writes, before>>

\* line 59, in the except clause of the 3D generation
Fallback2D ==
    /\ Running
    /\ answer' = NoAnswer
    /\ pc = "cs_3d_fallback"
    /\ mol_with_h' = "2d"
    /\ ops' = Append(ops, Did("Compute2DCoords", FALSE))
    /\ pc' = "cs_write"
    /\ UNCHANGED <<iter, exitCode, loopVars, args, mol, ret, fs, out, writes, before>>

\* line 61
Layout2D ==
    /\ Running
    /\ answer' = NoAnswer
    /\ pc = "cs_layout_2d"
    /\ mol_with_h' = "2d"
    /\ ops' = Append(ops, Did("Compute2DCoords", FALSE))
    /\ pc' = "cs_write"
    /\ UNCHANGED <<iter, exitCode, loopVars, args, mol, ret, fs, out, writes, before>>

\* lines 64-69
Write ==
    /\ Running
    /\ answer' = NoAnswer
    /\ pc = "cs_write"
    /\ LET writer == WriterOf(Arg.output_format)
           path == WriteTarget(Arg.output_file)
       IN  IF writer = "none"
           THEN /\ pc' = "cs_check"
                /\ UNCHANGED <<fs, writes, out, ret, exitCode>>
           ELSE \E raised \in BOOLEAN : \E after \in FileAfterWrite(fs[path], raised) :
                  /\ fs' = [fs EXCEPT ![path] = after]
                  /\ IF raised
                     THEN /\ Throw("OSError", Append(out, "Saving as file"))
                     ELSE /\ out' = Append(out, "Saving as file")
                          /\ pc' = "cs_check"
                          /\ UNCHANGED <<ret, exitCode>>
                  /\ writes' = Keep(Append(writes, Wrote(writer, path, mol_with_h, raised)), <<>>)
    /\ LoopFrameKept
    /\ ConvertFrameKept
    /\ ops' = Keep(ops, <<>>)
    /\ before' = Keep(before, fs')
    /\ UNCHANGED iter

\* lines 71-76
Check ==
    /\ Running
    /\ answer' = NoAnswer
    /\ pc = "cs_check"
    /\ IF OutputCreated(fs[Arg.output_file])
       THEN /\ out' = Append(out, "Conversion successful")
            /\ ret' = "True"
       ELSE /\ out' = Append(out, "Output file creation failed")
            /\ ret' = "False"
    /\ pc' = "banner"
    /\ UNCHANGED <<iter, exitCode, loopVars, args, mol, mol_with_h, fs, ops, writes, before>>

(***************************************************************************)
(* interactive_conversion, after the call                                  *)
(***************************************************************************)
\* lines 164-170 leaving the loop after a conversion that failed
BannerEndingOnFailure ==
    /\ Running
    /\ answer' = NoAnswer
    /\ pc = "banner"
    /\ success' = ret
    /\ out' = out \o (IF ret = "True"
                      THEN <<"Operation completed successfully!", "Output file">>
                      ELSE <<"Operation failed!">>)
    /\ pc' = IF ret = "True" THEN "read_continue" ELSE "done"
    /\ UNCHANGED <<iter, exitCode, choice, smiles, output_format, default_ext,
                   generate_3d, image_size, output_name, convertVars, fs, ops,
                   writes, before>>

\* lines 164-170
Banner ==
    /\ Running
    /\ answer' = NoAnswer
    /\ pc = "banner"
    /\ success' = ret
    /\ out' = out \o (IF ret = "True"
                      THEN <<"Operation completed successfully!", "Output file">>
                      ELSE <<"Operation failed!">>)
    /\ pc' = "read_continue"
    /\ UNCHANGED <<iter, exitCode, choice, smiles, output_format, default_ext,
                   generate_3d, image_size, output_name, convertVars, fs, ops,
                   writes, before>>

\* lines 173-177
ReadContinue ==
    /\ Running
    /\ pc = "read_continue"
    /\ \E typed \in ContinueInputs :
         /\ answer' = Answered("another", typed)
         /\ IF Continues(typed)
            THEN /\ out' = Append(out, "prompt: another")
                 /\ pc' = "loop_top"
                 /\ UNCHANGED exitCode
            ELSE /\ out' = out \o <<"prompt: another", "Goodbye!">>
                 /\ pc' = "done"
                 /\ exitCode' = "0"
    /\ LoopFrameKept
    /\ ConvertFrameKept
    /\ ret' = Keep(ret, "none")
    /\ TraceKept
    /\ UNCHANGED <<iter, fs>>

Next ==
    \/ LoopTop
    \/ ReadChoice
    \/ ReadSmiles
    \/ ReadSize
    \/ ReadName
    \/ Call
    \/ Parse
    \/ PngLayout
    \/ PngRender
    \/ PngSave
    \/ AddHs
    \/ Embed
    \/ EmbedAlt
    \/ Minimize
    \/ Fallback2D
    \/ Layout2D
    \/ Write
    \/ Check
    \/ Banner
    \/ ReadContinue
    \/ Interrupt
    \/ InputFault
    \/ ToolkitFault

Spec == Init /\ [][Next]_vars


(***************************************************************************)
(* convert_smiles called with any arguments                                *)
(***************************************************************************)
\* formats a caller may pass: the three known ones and one that is none of
\* them
CallFormats == Formats \cup {<<"x", "y", "z">>}

\* the arguments of one call (line 7)
CallArgs ==
    [smiles_string : {<<"C">>, <<"#">>},
     output_file : Paths,
     output_format : CallFormats,
     generate_3d : {"True", "False"},
     image_size : {DefaultImageSize, 2}]

\* the call of line 164 entered with arguments of any combination, the
\* output file absent or already there
InitConvert ==
    /\ pc = "cs_parse"
    /\ iter = 1
    /\ exitCode = "running"
    /\ choice = Unbound
    /\ smiles = Unbound
    /\ output_format = Unbound
    /\ default_ext = Unbound
    /\ generate_3d = "unbound"
    /\ image_size = 0
    /\ output_name = Unbound
    /\ success = "unbound"
    /\ \E a \in CallArgs :
         /\ args = <<a>>
         /\ \E file \in {"absent", "nonempty"} :
              fs = [p \in Paths |-> IF p = a.output_file THEN file ELSE "absent"]
    /\ mol = "unbound"
    /\ mol_with_h = "unbound"
    /\ ret = "none"
    /\ out = <<"Converting SMILES to">>
    /\ answer = NoAnswer
    /\ ops = <<>>
    /\ writes = <<>>
    /\ before = fs

\* the steps of convert_smiles
NextConvert ==
    \/ Parse
    \/ PngLayout
    \/ PngRender
    \/ PngSave
    \/ AddHs
    \/ Embed
    \/ EmbedAlt
    \/ Minimize
    \/ Fallback2D
    \/ Layout2D
    \/ Write
    \/ Check
    \/ ToolkitFault

SpecConvert == InitConvert /\ [][NextConvert]_vars

(***************************************************************************)
(* Vocabulary of the properties                                            *)
(***************************************************************************)
\* convert_smiles was called in this iteration
Called == args # <<>>

\* the call of this iteration has returned to interactive_conversion
Returned == Called /\ ret # "none"

Printed(message) == \E i \in DOMAIN out : out[i] = message

GeometryOps == {"EmbedMolecule(ETKDG)", "EmbedMolecule", "MMFFOptimizeMolecule"}

\* a toolkit call among `names` raised during the call
RaisedIn(names) == \E i \in DOMAIN ops : ops[i].raised /\ ops[i].op \in names

RaisedOutside(names) == \E i \in DOMAIN ops : ops[i].raised /\ ops[i].op \notin names

WriterRaised == \E i \in DOMAIN writes : writes[i].raised

\* the state of the file at the path the call was given
OutputFile == fs[Arg.output_file]

ParseFailed == Called /\ mol = "None"

(***************************************************************************)
(* C1                                                                      *)
(***************************************************************************)
\* C1 as stated (its part about the returned value): whenever convert_smiles
\* has returned, it returned a boolean, and after any of the listed failures
\* (invalid SMILES, a fault raised during embedding, a fault raised by the 2D
\* layout, the renderer or a writer, a missing output file) it returned false.
C1_EveryFailureYieldsFalse ==
    Returned =>
        /\ ret \in {"True", "False"}
        /\ ( \/ ParseFailed
             \/ RaisedIn(GeometryOps)
             \/ RaisedOutside(GeometryOps)
             \/ WriterRaised
             \/ OutputFile # "nonempty" ) => ret = "False"

\* what C1 holds of every returned call: a boolean, false after each listed
\* failure other than a fault raised inside the 3D generation
ReturnsBooleanFalseOnFailure ==
    Returned =>
        /\ ret \in {"True", "False"}
        /\ ( \/ ParseFailed
             \/ RaisedOutside(GeometryOps)
             \/ WriterRaised
             \/ OutputFile # "nonempty" ) => ret = "False"

\* a step that leaves convert_smiles either returns a boolean to line 164 or
\* is the user's interrupt; and a fault raised inside the 3D generation is
\* followed by the 2D layout of line 59, not by a return
LeavesOnlyByReturning ==
    /\ (pc \in ConvertPoints /\ pc' \notin ConvertPoints) =>
          \/ pc' = "banner" /\ ret' \in {"True", "False"}
          \/ pc' = "done" /\ out'[Len(out')] = "Program interrupted. Goodbye!"
    /\ (pc \in {"cs_embed", "cs_embed_alt", "cs_minimize"}
          /\ Len(ops') > Len(ops) /\ ops'[Len(ops')].raised) =>
          pc' = "cs_3d_fallback" /\ ret' = "none"

\* C1, amended: convert_smiles returns a boolean and no fault of the toolkit
\* or the file system escapes it; invalid SMILES, a fault raised by hydrogen
\* addition, the 2D layout, the renderer or a writer, and a missing or empty
\* output file each yield false; a fault raised during embedding or
\* minimization is caught inside the function, which goes on with the 2D
\* layout, and does not by itself yield false.
C1_NoFaultEscapes ==
    []ReturnsBooleanFalseOnFailure /\ [][LeavesOnlyByReturning]_vars

\* a writer raised and the call returned false
C1_Witness ==
    Returned /\ WriterRaised /\ ret = "False" /\ pc = "banner"


(***************************************************************************)
(* C2                                                                      *)
(***************************************************************************)
\* the toolkit parse returned a molecule
ParseSucceeded == Called /\ mol \in {"parsed", "2d"}

\* C2 as stated: for a SMILES string the toolkit parses and a format in
\* {pdb, mol, png}, convert_smiles returns true and a non-empty file exists
\* at output_path when it returns.
C2_ValidAlwaysSucceeds ==
    (Returned /\ ParseSucceeded /\ Arg.output_format \in Formats) =>
        ret = "True" /\ OutputFile = "nonempty"

\* C2, amended: for a SMILES string the toolkit parses and a format in
\* {pdb, mol, png}, with either value of generate_3d, convert_smiles returns
\* true exactly when no toolkit step outside the 3D generation raised
\* (hydrogen addition, 2D layout, rendering), the writer did not raise and a
\* non-empty file exists at output_path when it returns; otherwise it
\* returns false.
C2_ValidSucceedsUnlessFault ==
    (Returned /\ ParseSucceeded /\ Arg.output_format \in Formats) =>
        (ret = "True" <=> ( /\ ~RaisedOutside(GeometryOps)
                            /\ ~WriterRaised
                            /\ OutputFile = "nonempty" ))

\* a 3D MOL conversion of a valid SMILES string returned true
C2_Witness ==
    /\ Returned /\ ParseSucceeded /\ ret = "True"
    /\ Arg.output_format = T_mol /\ Arg.generate_3d = "True"
    /\ Len(writes) = 1 /\ writes[1].handed = "3d"
    /\ OutputFile = "nonempty"

(***************************************************************************)
(* C3                                                                      *)
(***************************************************************************)
\* C3: when the toolkit parse fails, convert_smiles logs "Invalid SMILES
\* string" and returns false; the call performs no toolkit operation besides
\* the parse and no file write, and leaves every file, the one at
\* output_path included, as it was before the call.
C3_ParseFailureTouchesNothing ==
    ParseFailed =>
        /\ ret = "False"
        /\ Printed("Invalid SMILES string")
        /\ ops = <<Did("MolFromSmiles", FALSE)>>
        /\ mol_with_h = "unbound"
        /\ writes = <<>>
        /\ fs = before

\* the parse failed in a call whose output path already held a file
C3_Witness ==
    ParseFailed /\ pc = "banner" /\ before[Arg.output_file] = "nonempty"

(***************************************************************************)
(* C4                                                                      *)
(***************************************************************************)
\* C4 as stated: for every call, the returned boolean is true exactly when a
\* file of non-zero size exists at output_path at the moment of return.
C4_TrueExactlyWhenFileNonEmpty ==
    Returned => (ret = "True" <=> OutputFile = "nonempty")

\* the call got as far as the existence/size check of lines 71-76
ReachedCheck ==
    ~ParseFailed /\ ~RaisedOutside(GeometryOps) /\ ~WriterRaised

\* C4, amended: a call returns true only if a file of non-zero size exists
\* at output_path at the moment of return; a call that reaches the
\* existence/size check (the SMILES parsed, no fault was caught at the
\* function boundary) returns true exactly when such a file exists, also
\* when the file existed before the call; a call that does not reach the
\* check returns false whatever the file.
C4_CheckDecidesWhenReached ==
    Returned =>
        /\ ret = "True" => OutputFile = "nonempty"
        /\ ReachedCheck => (ret = "True" <=> OutputFile = "nonempty")
        /\ ~ReachedCheck => ret = "False"

\* a call returned true for a path that held a file before the call
C4_Witness ==
    Returned /\ ret = "True" /\ before[Arg.output_file] # "absent"

(***************************************************************************)
(* C5                                                                      *)
(***************************************************************************)
\* the file-writing operation a format calls for
WriterExpected(fmt) ==
    CASE fmt = T_pdb -> "MolToPDBFile"
      [] fmt = T_mol -> "MolToMolFile"
      [] fmt = T_png -> "img.save"

\* C5: a call of convert_smiles that returns true has executed exactly one
\* file-writing operation, at output_path, of the requested format, which
\* did not raise; no call performs more than one write or changes a file at
\* another path.
C5_ExactlyOneWriteAtOutputPath ==
    /\ Len(writes) <= 1
    /\ \A i \in DOMAIN writes : Called /\ writes[i].path = Arg.output_file
    /\ \A p \in Paths : fs[p] # before[p] => Called /\ p = Arg.output_file
    /\ (Returned /\ ret = "True") =>
          /\ Len(writes) = 1
          /\ ~writes[1].raised
          /\ writes[1].op = WriterExpected(Arg.output_format)

\* a PNG conversion to a path other than the default one returned true
C5_Witness ==
    /\ Returned /\ ret = "True" /\ Len(writes) = 1
    /\ writes[1].op = "img.save"
    /\ Arg.output_file # <<"o", "u", "t", "p", "u", "t">> \o Ext(T_png)

(***************************************************************************)
(* C6                                                                      *)
(***************************************************************************)
\* C6: the molecule handed to the PDB or MOL writer always carries
\* coordinates, from a successful 3D embedding or from the 2D layout.
C6_WriterGetsCoordinates ==
    \A i \in DOMAIN writes :
        writes[i].op \in {"MolToPDBFile", "MolToMolFile"} =>
            writes[i].handed \in {"2d", "3d"}


(***************************************************************************)
(* Answers, read without the model's Strip and EndsWith                    *)
(***************************************************************************)
IsBlank(t) == \A k \in DOMAIN t : t[k] \in Whitespace

\* c is t without the whitespace around it
Trimmed(t, c) ==
    \E i \in 0..Len(t) : \E j \in 0..(Len(t) - i) :
        /\ c = SubSeq(t, i + 1, Len(t) - j)
        /\ \A k \in 1..i : t[k] \in Whitespace
        /\ \A k \in (Len(t) - j + 1)..Len(t) : t[k] \in Whitespace
        /\ c # <<>> => (c[1] \notin Whitespace /\ c[Len(c)] \notin Whitespace)

HasSuffix(t, e) ==
    /\ Len(t) >= Len(e)
    /\ \A k \in 1..Len(e) : t[Len(t) - Len(e) + k] = e[k]

\* the extension of each format
ExtensionOf(fmt) ==
    CASE fmt = <<"p", "d", "b">> -> <<".", "p", "d", "b">>
      [] fmt = <<"m", "o", "l">> -> <<".", "m", "o", "l">>
      [] fmt = <<"p", "n", "g">> -> <<".", "p", "n", "g">>

T_output == <<"o", "u", "t", "p", "u", "t">>

(***************************************************************************)
(* C7                                                                      *)
(***************************************************************************)
\* C7: the output filename is computed from the stripped filename answer and
\* the extension of the chosen format: an empty answer gives output<ext>, a
\* name not ending in <ext> gets <ext> appended, a name ending in <ext> is
\* kept; the path passed to convert_smiles is that filename and ends with the
\* extension of the format passed in the same call.
C7_OutputNameCarriesExtension ==
    /\ answer.to = "filename" =>
          \E i \in 0..Len(answer.text) : \E j \in 0..(Len(answer.text) - i) :
              LET name == SubSeq(answer.text, i + 1, Len(answer.text) - j)
                  ext == ExtensionOf(output_format)
              IN  /\ Trimmed(answer.text, name)
                  /\ name = <<>> => output_name = T_output \o ext
                  /\ (name # <<>> /\ ~HasSuffix(name, ext)) => output_name = name \o ext
                  /\ HasSuffix(name, ext) => output_name = name
    /\ Called =>
          /\ Arg.output_file = output_name
          /\ Arg.output_format = output_format
          /\ HasSuffix(Arg.output_file, ExtensionOf(Arg.output_format))

\* a filename typed with its extension is passed to convert_smiles as typed
C7_Witness ==
    /\ Called /\ pc = "cs_parse"
    /\ Arg.output_format = T_pdb
    /\ Arg.output_file = <<"a", ".", "p", "d", "b">>

(***************************************************************************)
(* C8                                                                      *)
(***************************************************************************)
\* size answers of the model that int() accepts, with their values
SizeTable ==
    { <<<<"0">>, 0>>, <<<<"2">>, 2>>, <<<<"0", "2">>, 2>>, <<<<"2", "0">>, 20>>,
      <<<<"+", "2">>, 2>>, <<<<"-", "2">>, -2>>, <<<<"-", "0">>, 0>>,
      <<<<"2", "_", "0">>, 20>> }

\* C8: for menu choice PNG the image size is a positive integer: the integer
\* value of the size answer when that parses to an integer above 0, and 200
\* when the answer is empty, non-numeric, zero or negative; reading a size,
\* valid or not, is followed by the filename prompt, and the size passed to
\* convert_smiles is that image size.
C8_ImageSizePositive ==
    /\ answer.to = "size" =>
          /\ pc = "read_name"
          /\ choice = <<"5">>
          /\ image_size > 0
          /\ LET parsed == ParseInt(answer.text)
             IN  image_size = IF parsed.ok /\ parsed.val > 0 THEN parsed.val ELSE 200
          /\ \A e \in SizeTable :
                Trimmed(answer.text, e[1]) =>
                    image_size = IF e[2] > 0 THEN e[2] ELSE 200
          /\ (\A e \in SizeTable : ~Trimmed(answer.text, e[1])) => image_size = 200
    /\ (Called /\ Arg.output_format = T_png) =>
          /\ Arg.image_size > 0
          /\ Arg.image_size = image_size

\* a negative size was typed and the loop went on to the filename prompt
\* with size 200
C8_Witness ==
    /\ answer.to = "size"
    /\ Trimmed(answer.text, <<"-", "2">>)
    /\ image_size = 200
    /\ pc = "read_name"

(***************************************************************************)
(* C9                                                                      *)
(***************************************************************************)
\* the conversion variant of each menu choice
Variants ==
    { << <<"1">>, T_pdb, "True" >>, << <<"2">>, T_pdb, "False" >>,
      << <<"3">>, T_mol, "True" >>, << <<"4">>, T_mol, "False" >>,
      << <<"5">>, T_png, "False" >> }

VariantPassed ==
    /\ Called => <<choice, Arg.output_format, Arg.generate_3d>> \in Variants
    /\ choice = <<"6">> =>
          /\ pc = "done" /\ exitCode = "0"
          /\ out[Len(out)] = "Goodbye!"
          /\ ~Called /\ ops = <<>> /\ writes = <<>> /\ fs = before

\* an iteration has ended by going back to the menu, not through a fault
BackAtMenu ==
    pc = "loop_top" /\ iter > 0 /\ ~Printed("An error occurred")

\* C9 as stated: the choice determines the variant passed, choice 6 converts
\* nothing, and an iteration shows the size prompt if and only if its choice
\* is 5.
C9_SizePromptIffChoice5 ==
    /\ VariantPassed
    /\ BackAtMenu => (Printed("prompt: size") <=> choice = <<"5">>)

\* C9, amended: choice 1 gives (pdb, 3D), 2 (pdb, 2D), 3 (mol, 3D),
\* 4 (mol, 2D), 5 (png, 2D) and no other combination is passed; choice 6
\* invokes no conversion and ends the loop; the size prompt is shown only if
\* the choice is 5, and in every iteration that calls convert_smiles it was
\* shown exactly when the choice is 5.
C9_ChoiceDeterminesVariant ==
    /\ VariantPassed
    /\ Printed("prompt: size") => choice = <<"5">>
    /\ Called => (Printed("prompt: size") <=> choice = <<"5">>)

\* choice 3 reached the conversion as (mol, 3D)
C9_Witness ==
    /\ Called /\ pc = "cs_parse" /\ choice = <<"3">>
    /\ Arg.output_format = T_mol /\ Arg.generate_3d = "True"
    /\ ~Printed("prompt: size")

(***************************************************************************)
(* C10                                                                     *)
(***************************************************************************)
MenuChoices == {<<"1">>, <<"2">>, <<"3">>, <<"4">>, <<"5">>, <<"6">>}

\* the iteration went back to the menu after `message` without converting
RejectedWith(message) ==
    /\ pc = "loop_top"
    /\ out[Len(out)] = message
    /\ ~Called
    /\ ops = <<>>
    /\ writes = <<>>
    /\ fs = before
    /\ ~Printed("prompt: another")

\* C10: a menu choice outside 1-6, or a SMILES answer that is empty after
\* stripping, is reported with a message and the loop goes straight back to
\* the menu without calling convert_smiles, writing a file or showing the
\* continue prompt; convert_smiles is never called with an empty SMILES
\* string.
C10_InvalidInputNeverConverts ==
    /\ (answer.to = "option" /\ \A c \in MenuChoices : ~Trimmed(answer.text, c)) =>
          RejectedWith("Invalid choice") /\ ~Printed("prompt: SMILES")
    /\ (answer.to = "SMILES" /\ IsBlank(answer.text)) =>
          RejectedWith("Please enter a valid SMILES string")
    /\ Called =>
          /\ Arg.smiles_string # <<>>
          /\ ~IsBlank(Arg.smiles_string)
          /\ choice \in MenuChoices \ {<<"6">>}

\* a SMILES answer of whitespace alone sent the loop back to the menu
C10_Witness ==
    /\ answer.to = "SMILES"
    /\ answer.text # <<>>
    /\ IsBlank(answer.text)
    /\ pc = "loop_top"

(***************************************************************************)
(* C11                                                                     *)
(***************************************************************************)
UpperCaseOf ==
    { <<"y", "Y">>, <<"e", "E">>, <<"s", "S">> }

\* t is c (in lower case) written in any mix of cases
SameLetters(t, c) ==
    /\ Len(t) = Len(c)
    /\ \A k \in 1..Len(c) : t[k] = c[k] \/ <<c[k], t[k]>> \in UpperCaseOf

\* the answer is y or yes, in any case, with any whitespace around it
Affirmative(t) ==
    \E c \in {<<"y">>, <<"y", "e", "s">>} :
        \E m \in {SubSeq(t, i, j) : i \in 1..(Len(t) + 1), j \in 0..Len(t)} :
            Trimmed(t, m) /\ SameLetters(m, c)

\* C11: right after an answer to the continue prompt, the loop is back at
\* the menu if and only if the stripped, lower-cased answer is y or yes;
\* after every other answer, the empty one included, the process has ended
\* with "Goodbye!" and exit code 0; and once the process has ended no step is
\* possible, so no further prompt is shown and no further conversion made.
C11_OnlyAffirmativeContinues ==
    /\ answer.to = "another" =>
          IF Affirmative(answer.text)
          THEN pc = "loop_top" /\ exitCode = "running"
          ELSE /\ pc = "done" /\ exitCode = "0"
               /\ out[Len(out)] = "Goodbye!"
               /\ out[Len(out) - 1] = "prompt: another"
    /\ pc = "done" => ~ENABLED Next

\* "YeS" surrounded by whitespace took the loop back to the menu
C11_Witness ==
    /\ answer.to = "another"
    /\ answer.text = <<" ", "Y", "e", "S", "\t", " ">>
    /\ pc = "loop_top"

(***************************************************************************)
(* C12                                                                     *)
(***************************************************************************)
\* the last message the step printed
Last(printed) == printed[Len(printed)]

\* this step is a writer raising
WriterFault ==
    Len(writes') > Len(writes) /\ writes'[Len(writes')].raised

\* this step is int() refusing the size answer
SizeFault ==
    /\ pc = "read_size"
    /\ answer'.to = "size"
    /\ ~IsBlank(answer'.text)
    /\ \A e \in SizeTable : ~Trimmed(answer'.text, e[1])

\* this step is the user's interrupt, caught by the loop, which ends cleanly
EndsCleanly ==
    /\ pc' = "done"
    /\ exitCode' = "0"
    /\ Last(out') = "Program interrupted. Goodbye!"

\* this step is a fault caught by the loop, which goes back to the menu
BackToMenu ==
    /\ pc' = "loop_top"
    /\ exitCode' = "running"
    /\ Last(out') = "An error occurred"

\* C12 as stated: an interrupt at a prompt or during the conversion ends the
\* loop cleanly, and any other fault raised at a prompt or during the
\* conversion is logged by the loop, which goes on at the menu.
C12_FaultsCaughtByTheLoop ==
    [][ /\ (Interrupt /\ pc # "loop_top") => EndsCleanly
        /\ (InputFault \/ ToolkitFault \/ WriterFault) => BackToMenu
      ]_vars

\* where each fault raised inside an iteration is caught
CaughtWhereGuarded ==
    /\ Interrupt =>
          IF pc = "loop_top"
          THEN pc' = "done" /\ exitCode' = "uncaught"
          ELSE EndsCleanly
    /\ InputFault => BackToMenu
    /\ ToolkitFault =>
          IF pc \in {"cs_embed", "cs_embed_alt", "cs_minimize"}
          THEN /\ pc' = "cs_3d_fallback"
               /\ Last(out') = "Using 2D coordinates..."
               /\ ret' = "none"
          ELSE /\ pc' = "banner"
               /\ Last(out') = "Conversion failed"
               /\ ret' = "False"
    /\ WriterFault =>
          /\ pc' = "banner"
          /\ Last(out') = "Conversion failed"
          /\ ret' = "False"
    /\ SizeFault =>
          /\ pc' = "read_name"
          /\ Last(out') = "Invalid size"
          /\ image_size' = 200
    /\ (InputFault \/ ToolkitFault \/ WriterFault \/ SizeFault) =>
          exitCode' = "running"
    /\ exitCode' # "1"

\* C12, amended: every fault raised at a prompt or during the conversion is
\* caught and logged inside the loop and none reaches main. A user interrupt
\* there ends the loop cleanly with no further prompt. A non-interrupt fault
\* of input() is logged by the loop, which goes on at the menu. A fault
\* raised during the conversion is caught by convert_smiles itself (3D
\* generation: warning and 2D layout; elsewhere: "Conversion failed" and
\* false), after which the loop goes on to the banner and the continue
\* prompt. A size answer int() refuses is caught at lines 138-140 and the
\* loop goes on to the filename prompt with size 200. An interrupt while the
\* menu is printed (lines 90-99, outside the try) is not caught by the loop.
C12_FaultsCaughtWhereGuarded == [][CaughtWhereGuarded]_vars

\* input() raised at the filename prompt and the loop is back at the menu
C12_Witness ==
    /\ pc = "loop_top"
    /\ iter > 0
    /\ Last(out) = "An error occurred"
    /\ Printed("prompt: filename")
    /\ exitCode = "running"

(***************************************************************************)
(* C13                                                                     *)
(***************************************************************************)
\* C13: when the process has ended, its exit code is 1 exactly when a fault
\* escaped the loop and was reported by main ("Unexpected error"), and 0 in
\* every other termination: Exit chosen at the menu, a non-affirmative
\* answer at the continue prompt, or a user interrupt at any point of the
\* run.
C13_ExitCodeOneOnlyForEscapedFault ==
    pc = "done" =>
        /\ exitCode \in {"0", "1"}
        /\ exitCode = "1" <=> Last(out) = "Unexpected error"
        /\ exitCode = "0" <=>
              Last(out) \in {"Goodbye!", "Program interrupted. Goodbye!"}

(***************************************************************************)
(* C14                                                                     *)
(***************************************************************************)
\* toolkit call `op` returned `result` during the call
ToolkitGave(op, result) == \E i \in DOMAIN ops : ops[i] = Gave(op, result)

\* the messages that report that the requested conversion, or its 3D
\* coordinates, did not come about
FailureReports ==
    {"3D coordinate generation warning", "Conversion failed",
     "Output file creation failed"}

\* C14: no failure is passed over in silence. When convert_smiles has
\* returned: a failed parse was reported ("Invalid SMILES string"); a failed
\* first embedding was reported ("First embedding failed ..."); a failed
\* fallback embedding was reported by a message saying that the 3D
\* coordinates or the conversion did not come about; a non-converged
\* minimization was reported; every caught fault was reported; and a request
\* that left no non-empty file was reported as failed. In the loop, a caught
\* fault was reported before the loop went back to the menu or ended.
C14_EveryFailureReported ==
    /\ Returned =>
          /\ ParseFailed => Printed("Invalid SMILES string")
          /\ ToolkitGave("EmbedMolecule(ETKDG)", -1) =>
                Printed("First embedding failed, trying alternative method...")
          /\ ToolkitGave("EmbedMolecule", -1) =>
                \E m \in FailureReports : Printed(m)
          /\ (ToolkitGave("MMFFOptimizeMolecule", 1)
                \/ ToolkitGave("MMFFOptimizeMolecule", -1)) =>
                Printed("Energy minimization may not have fully converged")
          /\ RaisedIn(GeometryOps) => Printed("3D coordinate generation warning")
          /\ (RaisedOutside(GeometryOps) \/ WriterRaised) => Printed("Conversion failed")
          /\ OutputFile # "nonempty" =>
                /\ ret = "False"
                /\ \/ Printed("Invalid SMILES string")
                   \/ \E m \in FailureReports : Printed(m)
    /\ (pc = "read_continue" /\ success = "False") => Printed("Operation failed!")

(***************************************************************************)
(* C15                                                                     *)
(***************************************************************************)
\* how many times toolkit call `op` was attempted during the call
Attempts(op) == Cardinality({i \in DOMAIN ops : ops[i].op = op})

\* the position in ops of the one attempt of `op`
AttemptOf(op) == CHOOSE i \in DOMAIN ops : ops[i].op = op

\* hydrogens were added: the call is past line 40
HydrogensAdded == \E i \in DOMAIN ops : ops[i] = Did("AddHs", FALSE)

\* the call asks for a structure file with 3D coordinates
Wants3D == Called /\ Arg.output_format # T_png /\ Arg.generate_3d = "True"

\* the embedding step(s) are over without a fault
Embedded ==
    \/ ToolkitGave("EmbedMolecule(ETKDG)", 0)
    \/ \E r \in {0, -1} : ToolkitGave("EmbedMolecule", r)

\* C15: in a pdb/mol conversion with generate_3d true, once hydrogens are
\* added the ETKDG embedding is attempted first and exactly once; the default
\* embedding is attempted, exactly once and right after it, if and only if
\* the ETKDG attempt returned -1; the minimization is attempted once, after
\* the embedding step(s), whenever these ended without a fault; and after a
\* non-zero minimization result the conversion goes on to the writer and
\* returns true exactly when the writer does not raise and leaves a
\* non-empty file.
C15_StrategiesInFixedOrder ==
    Wants3D =>
        /\ \A op \in GeometryOps : Attempts(op) <= 1
        /\ HydrogensAdded =>
              pc = "cs_embed" \/ Attempts("EmbedMolecule(ETKDG)") = 1
        /\ Attempts("EmbedMolecule(ETKDG)") = 1 =>
              /\ ops[AttemptOf("EmbedMolecule(ETKDG)") - 1] = Did("AddHs", FALSE)
              /\ \A op \in GeometryOps \ {"EmbedMolecule(ETKDG)"} :
                    Attempts(op) = 1 => AttemptOf(op) > AttemptOf("EmbedMolecule(ETKDG)")
        /\ ToolkitGave("EmbedMolecule(ETKDG)", -1) <=>
              (pc = "cs_embed_alt" \/ Attempts("EmbedMolecule") = 1)
        /\ Attempts("EmbedMolecule") = 1 =>
              AttemptOf("EmbedMolecule") = AttemptOf("EmbedMolecule(ETKDG)") + 1
        /\ Embedded <=>
              (pc = "cs_minimize" \/ Attempts("MMFFOptimizeMolecule") = 1)
        /\ Attempts("MMFFOptimizeMolecule") = 1 =>
              /\ ops[AttemptOf("MMFFOptimizeMolecule") - 1].op
                    \in {"EmbedMolecule(ETKDG)", "EmbedMolecule"}
              /\ ~ops[AttemptOf("MMFFOptimizeMolecule") - 1].raised
        /\ (\E r \in {1, -1} : ToolkitGave("MMFFOptimizeMolecule", r)) =>
              /\ pc = "cs_write" \/ Len(writes) = 1
              /\ Returned => (ret = "True" <=>
                                (~WriterRaised /\ OutputFile = "nonempty"))

\* the first embedding failed, the default one succeeded, the minimization
\* did not converge and the conversion returned true
C15_Witness ==
    /\ Wants3D
    /\ Returned
    /\ ToolkitGave("EmbedMolecule(ETKDG)", -1)
    /\ ToolkitGave("EmbedMolecule", 0)
    /\ ToolkitGave("MMFFOptimizeMolecule", 1)
    /\ ret = "True"

(***************************************************************************)
(* C16                                                                     *)
(***************************************************************************)
\* the position in ops of the 3D generation step that raised
RaisedAt == CHOOSE i \in DOMAIN ops : ops[i].raised /\ ops[i].op \in GeometryOps

\* the 2D layout of line 59 was computed after the fault
FellBackTo2D ==
    /\ Len(ops) = RaisedAt + 1
    /\ ops[Len(ops)] = Did("Compute2DCoords", FALSE)
    /\ mol_with_h = "2d"

\* C16: after a fault raised by the first embedding, the fallback embedding
\* or the minimization, a warning is printed and nothing but the 2D layout
\* of the hydrogen-added molecule is attempted next; once that layout is
\* computed the writer is run on the 2D molecule, and when the writer does
\* not raise the post-condition check decides the result: such a conversion
\* returns true exactly when a non-empty file is at the output path.
C16_FaultIn3DFallsBackTo2D ==
    RaisedIn(GeometryOps) =>
        /\ Wants3D
        /\ Cardinality({i \in DOMAIN ops : ops[i].raised
                                             /\ ops[i].op \in GeometryOps}) = 1
        /\ Printed("3D coordinate generation warning")
        /\ Printed("Using 2D coordinates...")
        /\ ~Printed("3D coordinates generated successfully")
        /\ \/ pc = "cs_3d_fallback" /\ Len(ops) = RaisedAt /\ ret = "none"
           \/ /\ Len(ops) = RaisedAt + 1
              /\ ops[Len(ops)] = Did("Compute2DCoords", TRUE)
              /\ ret = "False"
           \/ /\ FellBackTo2D
              /\ pc = "cs_write" \/ Len(writes) = 1
              /\ Len(writes) = 1 =>
                    /\ writes[1].handed = "2d"
                    /\ writes[1].op = WriterExpected(Arg.output_format)
              /\ (Returned /\ ~WriterRaised) =>
                    /\ \/ Printed("Conversion successful")
                       \/ Printed("Output file creation failed")
                    /\ ret = "True" <=> OutputFile = "nonempty"

\* the minimization raised and the conversion still returned true
C16_Witness ==
    /\ Returned
    /\ \E i \in DOMAIN ops : ops[i] = Did("MMFFOptimizeMolecule", TRUE)
    /\ FellBackTo2D
    /\ ret = "True"

(***************************************************************************)
(* C17                                                                     *)
(***************************************************************************)
\* the toolkit calls of this call, in order, by name
OpNames == [i \in DOMAIN ops |-> ops[i].op]

IsPrefix(s, t) ==
    /\ Len(s) <= Len(t)
    /\ \A i \in DOMAIN s : s[i] = t[i]

\* C17: a call of convert_smiles performs no toolkit step its variant does
\* not call for. For png, whatever generate_3d is, the steps are the parse,
\* one 2D layout, then the rendering, in that order and no other (no
\* hydrogen addition, no embedding, no minimization). For pdb/mol with
\* generate_3d false they are the parse, the hydrogen addition, then one 2D
\* layout, and never an embedding or a minimization. For pdb/mol no layout,
\* embedding or minimization is attempted before hydrogens were added, and
\* nothing is rendered.
C17_OnlyTheStepsOfTheVariant ==
    Called =>
        /\ Arg.output_format = T_png =>
              /\ IsPrefix(OpNames, <<"MolFromSmiles", "Compute2DCoords", "MolToImage">>)
              /\ mol_with_h = "unbound"
        /\ (Arg.output_format \in {T_pdb, T_mol} /\ Arg.generate_3d = "False") =>
              IsPrefix(OpNames, <<"MolFromSmiles", "AddHs", "Compute2DCoords">>)
        /\ Arg.output_format \in {T_pdb, T_mol} =>
              /\ \A i \in DOMAIN ops :
                    ops[i].op \in GeometryOps \cup {"Compute2DCoords"} =>
                        \E j \in 1..(i - 1) : ops[j] = Did("AddHs", FALSE)
              /\ \A i \in DOMAIN ops : ops[i].op # "MolToImage"

\* a png call with generate_3d true went through layout and rendering only
\* and returned true
C17_Witness ==
    /\ Returned
    /\ Arg.output_format = T_png
    /\ Arg.generate_3d = "True"
    /\ OpNames = <<"MolFromSmiles", "Compute2DCoords", "MolToImage">>
    /\ ret = "True"

(***************************************************************************)
(* C18                                                                     *)
(***************************************************************************)
\* the banner of lines 166-170 for a returned value
BannerFor(value) ==
    IF value = "True"
    THEN <<"Operation completed successfully!", "Output file">>
    ELSE <<"Operation failed!">>

\* at the continue prompt the banner printed matches the returned value, and
\* the menu can be reached from there; the file name is printed as the
\* result only after a call that returned true
BannerMatches ==
    /\ pc = "read_continue" =>
          /\ Returned
          /\ success = ret
          /\ Printed("Operation completed successfully!") <=> ret = "True"
          /\ Printed("Operation failed!") <=> ret = "False"
          /\ ENABLED (ReadContinue /\ pc' = "loop_top")
    /\ (Printed("Output file") /\ pc # "done") => ret = "True"

\* the only step after a return, unless the user interrupts, prints the
\* matching banner and moves to the continue prompt; the only steps at the
\* continue prompt go back to the menu or end the process
BannerThenContinuePrompt ==
    /\ pc = "banner" =>
          /\ ret \in {"True", "False"}
          /\ \/ /\ pc' = "read_continue"
                /\ out' = out \o BannerFor(ret)
                /\ exitCode' = "running"
             \/ /\ pc' = "done"
                /\ Last(out') = "Program interrupted. Goodbye!"
    /\ pc = "read_continue" => pc' \in {"loop_top", "done"}

\* C18: after every call of convert_smiles that returns, true or false, the
\* loop prints the matching banner and reaches the continue prompt (unless
\* the user interrupts), from which the menu can be reached again; a call
\* that returned false never ends the loop by itself; the output file name
\* is printed as the result only when the call returned true.
C18_FailureKeepsTheLoopGoing ==
    []BannerMatches /\ [][BannerThenContinuePrompt]_vars

\* after a conversion that returned false the loop is back at the menu
C18_Witness ==
    /\ pc = "loop_top"
    /\ Returned
    /\ ret = "False"
    /\ Printed("Operation failed!")
    /\ answer.to = "another"

(***************************************************************************)
(* C19                                                                     *)
(***************************************************************************)
\* how many times this iteration printed `message`
TimesPrinted(message) == Cardinality({i \in DOMAIN out : out[i] = message})

\* the filename for a stripped answer and an extension
NameFor(name, ext) ==
    IF name = <<>> THEN T_output \o ext
    ELSE IF HasSuffix(name, ext) THEN name
    ELSE name \o ext

\* the image size for a size answer
SizeFor(text) ==
    IF \E e \in SizeTable : Trimmed(text, e[1]) /\ e[2] > 0
    THEN (CHOOSE e \in SizeTable : Trimmed(text, e[1])) [2]
    ELSE 200

\* by the time of the call every answer the arguments come from was read in
\* this iteration, once: the menu choice, the SMILES, the filename, and the
\* size exactly when the choice is 5
ReadInThisIteration ==
    (pc = "call" \/ (Called /\ pc # "loop_top")) =>
        /\ out[1] = "Options"
        /\ TimesPrinted("Options") = 1
        /\ TimesPrinted("prompt: option") = 1
        /\ TimesPrinted("prompt: SMILES") = 1
        /\ TimesPrinted("prompt: filename") = 1
        /\ TimesPrinted("prompt: size") = IF choice = <<"5">> THEN 1 ELSE 0

\* each answer read decides the locals assigned from it, whatever they held
\* before; from there to the call these locals are not assigned again; and
\* the call passes the locals
AnswersDecideArguments ==
    /\ answer'.to = "option" => Trimmed(answer'.text, choice')
    /\ (answer'.to = "SMILES" /\ pc' # "loop_top") =>
          /\ Trimmed(answer'.text, smiles')
          /\ choice' = choice
          /\ <<choice, output_format', generate_3d'>> \in Variants
          /\ default_ext' = ExtensionOf(output_format')
          /\ choice # <<"5">> => image_size' = 200
    /\ answer'.to = "size" =>
          /\ image_size' = SizeFor(answer'.text)
          /\ <<choice', smiles', output_format', default_ext', generate_3d'>>
                = <<choice, smiles, output_format, default_ext, generate_3d>>
    /\ answer'.to = "filename" =>
          /\ \E name \in {SubSeq(answer'.text, i, j) :
                            i \in 1..(Len(answer'.text) + 1),
                            j \in 0..Len(answer'.text)} :
                /\ Trimmed(answer'.text, name)
                /\ output_name' = NameFor(name, default_ext)
          /\ <<choice', smiles', output_format', default_ext', generate_3d',
               image_size'>>
                = <<choice, smiles, output_format, default_ext, generate_3d,
                    image_size>>
    /\ (pc = "call" /\ pc' # "done") =>
          args' = << [smiles_string |-> smiles, output_file |-> output_name,
                      output_format |-> output_format,
                      generate_3d |-> generate_3d, image_size |-> image_size] >>
    /\ (Called /\ pc' # "done") => args' = args \/ pc' = "read_choice"

\* C19: all five arguments of every call of convert_smiles are determined by
\* the answers read in the current iteration: the choice, the SMILES, the
\* filename and, for choice 5, the size are each read once in the iteration
\* before the call, each answer fixes the locals assigned from it whatever
\* they held before, and the call passes these locals; no value left over
\* from an earlier iteration is passed, whether that iteration failed, was
\* invalid or was cut short by a caught fault.
C19_ArgumentsFromThisIteration ==
    []ReadInThisIteration /\ [][AnswersDecideArguments]_vars

\* a call in a later iteration, after an iteration whose conversion failed
C19_Witness ==
    /\ iter >= 2
    /\ pc = "cs_parse"
    /\ Called
    /\ success = "False"
    /\ Arg.smiles_string = <<"C">>

(***************************************************************************)
(* C20                                                                     *)
(***************************************************************************)
\* this step says goodbye and ends the process with exit code 0
SaysGoodbye ==
    /\ Last(out') = "Goodbye!"
    /\ exitCode' = "0"

\* a step that ends the process is choice 6 at the menu, a non-affirmative
\* answer at the continue prompt, or the user's interrupt
ExitsOnlyOnRequest ==
    (pc # "done" /\ pc' = "done") =>
        \/ /\ pc = "read_choice"
           /\ answer'.to = "option"
           /\ Trimmed(answer'.text, <<"6">>)
           /\ SaysGoodbye
        \/ /\ pc = "read_continue"
           /\ answer'.to = "another"
           /\ ~Affirmative(answer'.text)
           /\ SaysGoodbye
        \/ Interrupt

\* a fault of input() takes the loop back to the menu
InputFaultGoesOn == InputFault => BackToMenu

\* back at the menu the loop starts its next iteration and asks again (the
\* model stops counting iterations at MaxIter), and the read of the choice
\* can raise again
MenuGoesOn ==
    /\ (pc = "loop_top" /\ exitCode = "running" /\ iter < MaxIter) =>
          ENABLED (LoopTop /\ pc' = "read_choice")
    /\ pc = "read_choice" => ENABLED (InputFault /\ pc' = "loop_top")

\* C20: the exit state is entered only from the menu with choice 6, from the
\* continue prompt with a non-affirmative answer, or by a user interrupt; no
\* conversion result, invalid input or caught non-interrupt fault enters it;
\* a read of input that raises a non-interrupt fault takes the loop back to
\* the menu, where the next iteration starts and the read can raise again,
\* so a run in which every read raises returns to the menu without end.
C20_LoopsUntilExitOrInterrupt ==
    []MenuGoesOn /\ [][ExitsOnlyOnRequest /\ InputFaultGoesOn]_vars

\* the read of the menu choice raised in two iterations running and the loop
\* is back at the menu
C20_Witness ==
    /\ iter >= 2
    /\ pc = "loop_top"
    /\ exitCode = "running"
    /\ out = <<"Options", "prompt: option", "An error occurred">>
    /\ choice = Unbound

=============================================================================
